---- MODULE Spec2Model ----
(***************************************************************************)
(* GeckoTerminalAPI (geckoterminal_api/api.py): a synchronous REST client. *)
(* One state = the client object plus the observable record of the most    *)
(* recent endpoint call: how it was invoked (positional tuple and keyword   *)
(* dict), the warnings it emitted, the requests it handed to the transport, *)
(* the transport's reply and how the call ended (return value or exception).*)
(*                                                                         *)
(* Python values: str is a TLA+ string, int an integer, list a sequence,    *)
(* dict a record.  A value of an Optional[...] type is tagged: None is      *)
(* [none |-> TRUE] and a present value x is [val |-> x].                    *)
(***************************************************************************)
EXTENDS Integers, Sequences, FiniteSets, TLC

VARIABLES api_version, base_url, session, call, warned, sent, wire, response, outcome, accepts

vars == <<api_version, base_url, session, call, warned, sent, wire, response, outcome, accepts>>

(* ---------------------------- bounds ---------------------------------- *)
MaxPage == 11
MaxAddrs == 31
MaxShort == 2

(* ------------------------ program constants --------------------------- *)
PageLimit == 10
AddrLimit == 30
Timeout == 30
DefaultPage == 1
OK == 200

(* ------------------------- Python values ------------------------------ *)
None == [none |-> TRUE]
Some(x) == [val |-> x]
IsNone(o) == DOMAIN o = {"none"}

\* Python truthiness of an Optional[str]: None and "" are falsy.
Truthy(o) == ~IsNone(o) /\ o.val # ""

\* sep.join(items)
RECURSIVE join(_, _)
join(sep, items) ==
  IF items = <<>> THEN ""
  ELSE IF Len(items) = 1 THEN items[1]
  ELSE items[1] \o sep \o join(sep, Tail(items))

\* str(n) for an int, as an f-string formats it
str(n) == ToString(n)

\* args[i] with Python's 0-based index; args[0] is self
PyItem(args, i) == args[i + 1]
PyHasItem(args, i) == i + 1 <= Len(args)

(* --------------------------- input sets ------------------------------- *)
Versions == {None, Some(""), Some("20230302")}
Networks == {"eth", "bsc"}
Dexes == {"sushiswap"}
Queries == {"ETH"}
AddrPool == <<"0xAA", "0xBB">>
Pages == {DefaultPage} \cup (PageLimit..MaxPage)
IncludeLists == {<<>>, <<"dex">>, <<"network", "dex">>, <<"dex", "dex">>}
IncludeArgs == {None} \cup {Some(l) : l \in IncludeLists}
NetworkArgs == {None} \cup {Some(n) : n \in Networks}

ShortLists == UNION {[1..n -> {AddrPool[i] : i \in 1..Len(AddrPool)}] : n \in 0..MaxShort}
LongList(n) == [i \in 1..n |-> AddrPool[((i - 1) % Len(AddrPool)) + 1]]
AddressLists == ShortLists \cup {LongList(n) : n \in AddrLimit..MaxAddrs}

Statuses == {200, 201, 301, 404, 500}
Bodies == {"{\"data\":[]}", "{\"data\":[],\"included\":[]}", "Not Found"}
TransportErrors == {"ConnectionError"}
Replies == {[kind |-> "response", status_code |-> s, text |-> t] : s \in Statuses, t \in Bodies}
           \cup {[kind |-> "exception", exc |-> e] : e \in TransportErrors}

(* ------------------- transport (requests.Session) --------------------- *)
\* response.json(): the decoded value of a well-formed body
WellFormed(text) == text \in {"{\"data\":[]}", "{\"data\":[],\"included\":[]}"}
json(text) ==
  CASE text = "{\"data\":[]}" -> [data |-> <<>>]
    [] text = "{\"data\":[],\"included\":[]}" -> [data |-> <<>>, included |-> <<>>]

\* Parameters whose declared type is Optional, i.e. whose value may be None
OptionalParams == {"network"}

\* What Session.request puts on the wire for a request: the URL, the accept
\* header and the query parameters, a parameter whose value is None being
\* left out (params=None gives an empty query).
prepare(request) ==
  LET d == request.params
      keys == IF IsNone(d) THEN {}
              ELSE {k \in DOMAIN d.val : ~(k \in OptionalParams /\ IsNone(d.val[k]))}
  IN [url |-> request.url,
      accept |-> request.headers.accept,
      query |-> [k \in keys |-> IF k \in OptionalParams THEN d.val[k].val ELSE d.val[k]]]

(* ------------------------- request executor --------------------------- *)
\* GeckoTerminalAPIError(status=..., err=...)
GeckoTerminalAPIError(status, err) ==
  [kind |-> "raise", exc |-> "GeckoTerminalAPIError", status |-> status, err |-> err]

Raise(exc) == [kind |-> "raise", exc |-> exc]
Return(value) == [kind |-> "return", value |-> value]

\* _get taking every 2xx status for success
_get_any_2xx(endpoint, params, reply) ==
  LET headers == [accept |-> IF Truthy(api_version)
                             THEN "application/json;version=" \o api_version.val
                             ELSE "application/json"]
      request == [method |-> "GET", url |-> base_url \o endpoint, params |-> params,
                  headers |-> headers, timeout |-> Timeout]
  IN [sent |-> <<request>>,
      reply |-> reply,
      outcome |-> IF reply.kind = "exception" THEN Raise(reply.exc)
                  ELSE IF reply.status_code \in 200..299
                       THEN IF WellFormed(reply.text) THEN Return(json(reply.text))
                            ELSE Raise("JSONDecodeError")
                       ELSE GeckoTerminalAPIError(reply.status_code, reply.text)]

\* _get testing the version with "is not None" instead of its truth value
_get_version_not_none(endpoint, params, reply) ==
  LET headers == [accept |-> IF ~IsNone(api_version)
                             THEN "application/json;version=" \o api_version.val
                             ELSE "application/json"]
      request == [method |-> "GET", url |-> base_url \o endpoint, params |-> params,
                  headers |-> headers, timeout |-> Timeout]
  IN [sent |-> <<request>>,
      reply |-> reply,
      outcome |-> IF reply.kind = "exception" THEN Raise(reply.exc)
                  ELSE IF reply.status_code = OK
                       THEN IF WellFormed(reply.text) THEN Return(json(reply.text))
                            ELSE Raise("JSONDecodeError")
                       ELSE GeckoTerminalAPIError(reply.status_code, reply.text)]

\* _get returning response.json()["data"] re-wrapped, losing the other keys
_get_data_only(endpoint, params, reply) ==
  LET headers == [accept |-> IF Truthy(api_version)
                             THEN "application/json;version=" \o api_version.val
                             ELSE "application/json"]
      request == [method |-> "GET", url |-> base_url \o endpoint, params |-> params,
                  headers |-> headers, timeout |-> Timeout]
  IN [sent |-> <<request>>,
      reply |-> reply,
      outcome |-> IF reply.kind = "exception" THEN Raise(reply.exc)
                  ELSE IF reply.status_code = OK
                       THEN IF WellFormed(reply.text)
                            THEN Return([data |-> json(reply.text).data])
                            ELSE Raise("JSONDecodeError")
                       ELSE GeckoTerminalAPIError(reply.status_code, reply.text)]

\* GeckoTerminalAPI._get: the request handed to the transport and how the
\* call ends for a given transport reply.
_get(endpoint, params, reply) ==
  LET headers == [accept |-> IF Truthy(api_version)
                             THEN "application/json;version=" \o api_version.val
                             ELSE "application/json"]
      url == base_url \o endpoint
      request == [method |-> "GET", url |-> url, params |-> params,
                  headers |-> headers, timeout |-> Timeout]
  IN [sent |-> <<request>>,
      reply |-> reply,
      outcome |-> IF reply.kind = "exception" THEN Raise(reply.exc)
                  ELSE IF reply.status_code = OK
                       THEN IF WellFormed(reply.text) THEN Return(json(reply.text))
                            ELSE Raise("JSONDecodeError")
                       ELSE GeckoTerminalAPIError(reply.status_code, reply.text)]

(* -------------------------- parameter guards --------------------------- *)
Warning(message) == [category |-> "GeckoTerminalParameterWarning", message |-> message]
NoReply == [kind |-> "none"]

\* validate_page.wrapper: r is the result of f(*args, **kwargs)
validate_page(args, kwargs, r) ==
  LET w == IF "page" \in DOMAIN kwargs /\ kwargs.page > PageLimit
           THEN <<Warning("Maximum 10 pages allowed, " \o str(kwargs.page) \o " provided")>>
           ELSE <<>>
  IN [warned |-> w, sent |-> r.sent, reply |-> r.reply, outcome |-> r.outcome]

\* validate_addresses.wrapper: the message is formatted from len(args[1]),
\* which raises IndexError when the call has no second positional argument.
validate_addresses(args, kwargs, r) ==
  IF "addresses" \in DOMAIN kwargs /\ Len(kwargs.addresses) > AddrLimit
  THEN IF PyHasItem(args, 1)
       THEN [warned |-> <<Warning("Maximum 30 addresses allowed, "
                                  \o str(Len(PyItem(args, 1))) \o " provided")>>,
             sent |-> r.sent, reply |-> r.reply, outcome |-> r.outcome]
       ELSE [warned |-> <<>>, sent |-> <<>>, reply |-> NoReply, outcome |-> Raise("IndexError")]
  ELSE [warned |-> <<>>, sent |-> r.sent, reply |-> r.reply, outcome |-> r.outcome]

\* an endpoint method without a guard
unguarded(r) == [warned |-> <<>>, sent |-> r.sent, reply |-> r.reply, outcome |-> r.outcome]

(* -------------------------- endpoint methods --------------------------- *)
WithDefault(include, dflt) == IF IsNone(include) THEN dflt ELSE include.val

networks(page, reply) ==
  _get("/networks", Some([page |-> page]), reply)

dexes(network, page, reply) ==
  _get("/networks/" \o network \o "/dexes", Some([page |-> page]), reply)

trending_pools(include, page, reply) ==
  LET inc == WithDefault(include, <<"base_token", "quote_token", "dex", "network">>)
  IN _get("/networks/trending_pools", Some([include |-> join(",", inc), page |-> page]), reply)

network_trending_pools(network, include, page, reply) ==
  LET inc == WithDefault(include, <<"base_token", "quote_token", "dex">>)
  IN _get("/networks/" \o network \o "/trending_pools",
          Some([include |-> join(",", inc), page |-> page]), reply)

network_pool_address(network, address, include, reply) ==
  LET inc == WithDefault(include, <<"base_token", "quote_token", "dex">>)
  IN _get("/networks/" \o network \o "/pools/" \o address,
          Some([include |-> join(",", inc)]), reply)

\* network_pools_multi_address joining the addresses with ","
network_pools_multi_address_comma(network, addresses, include, reply) ==
  LET inc == WithDefault(include, <<"base_token", "quote_token", "dex">>)
  IN _get("/networks/" \o network \o "/pools/multi/" \o join(",", addresses),
          Some([include |-> join(",", inc)]), reply)

network_pools_multi_address(network, addresses, include, reply) ==
  LET inc == WithDefault(include, <<"base_token", "quote_token", "dex">>)
  IN _get("/networks/" \o network \o "/pools/multi/" \o join("%", addresses),
          Some([include |-> join(",", inc)]), reply)

\* network_pools with the default include set of the global endpoints
network_pools_global_default(network, include, page, reply) ==
  LET inc == WithDefault(include, <<"base_token", "quote_token", "dex", "network">>)
  IN _get("/networks/" \o network \o "/pools",
          Some([include |-> join(",", inc), page |-> page]), reply)

network_pools(network, include, page, reply) ==
  LET inc == WithDefault(include, <<"base_token", "quote_token", "dex">>)
  IN _get("/networks/" \o network \o "/pools",
          Some([include |-> join(",", inc), page |-> page]), reply)

network_dex_pools(network, dex, include, page, reply) ==
  LET inc == WithDefault(include, <<"base_token", "quote_token", "dex">>)
  IN _get("/networks/" \o network \o "/dexes/" \o dex \o "/pools",
          Some([include |-> join(",", inc), page |-> page]), reply)

network_new_pools(network, include, page, reply) ==
  LET inc == WithDefault(include, <<"base_token", "quote_token", "dex">>)
  IN _get("/networks/" \o network \o "/new_pools",
          Some([include |-> join(",", inc), page |-> page]), reply)

new_pools(include, page, reply) ==
  LET inc == WithDefault(include, <<"base_token", "quote_token", "dex", "network">>)
  IN _get("/networks/new_pools", Some([include |-> join(",", inc), page |-> page]), reply)

\* search_network_pool sending str(network), so that None goes out as "None"
search_network_pool_str_network(query, network, include, page, reply) ==
  LET inc == WithDefault(include, <<"base_token", "quote_token", "dex">>)
  IN _get("/search/pools",
          Some([query |-> query,
                network |-> Some(IF IsNone(network) THEN "None" ELSE network.val),
                include |-> join(",", inc), page |-> page]), reply)

search_network_pool(query, network, include, page, reply) ==
  LET inc == WithDefault(include, <<"base_token", "quote_token", "dex">>)
  IN _get("/search/pools",
          Some([query |-> query, network |-> network,
                include |-> join(",", inc), page |-> page]), reply)

network_addresses_token_price(network, addresses, reply) ==
  _get("/simple/networks/" \o network \o "/token_price/" \o join("%", addresses), None, reply)

(* ----------------------------- call shapes ----------------------------- *)
\* A call f(*args, **kwargs) of a method with parameter list sig (self left
\* out) and defaults dflt: the parameters in `given` are passed, the first
\* npos of them positionally and the others by keyword.
Names(sig) == {sig[i] : i \in 1..Len(sig)}
Positional(sig, npos) == {sig[i] : i \in 1..npos}

ValidCall(sig, dflt, vals, given, npos) ==
  /\ npos <= Len(sig)
  /\ given \subseteq Names(sig)
  /\ (Names(sig) \ DOMAIN dflt) \subseteq given
  /\ Positional(sig, npos) \subseteq given
  /\ \A p \in Names(sig) \ given : vals[p] = dflt[p]

PosArgs(sig, vals, npos) == <<"self">> \o [i \in 1..npos |-> vals[sig[i]]]
KwArgs(sig, vals, given, npos) == [p \in given \ Positional(sig, npos) |-> vals[p]]

\* Python's binding of the call's arguments to the method's parameters
Bind(sig, dflt, args, kwargs) ==
  [p \in Names(sig) |->
     LET i == CHOOSE j \in 1..Len(sig) : sig[j] = p
     IN IF PyHasItem(args, i) THEN PyItem(args, i)
        ELSE IF p \in DOMAIN kwargs THEN kwargs[p]
        ELSE dflt[p]]

NoDefaults == <<>>

\* No endpoint call is in progress or awaiting its caller
NoOutcome == [kind |-> "none"]
Idle == outcome = NoOutcome

\* The observable record of one endpoint call whose execution is x
Invoke(m, args, kwargs, x) ==
  /\ call' = [method |-> m, args |-> args, kwargs |-> kwargs]
  /\ warned' = x.warned
  /\ sent' = x.sent
  /\ wire' = [i \in 1..Len(x.sent) |-> prepare(x.sent[i])]
  /\ response' = x.reply
  /\ outcome' = x.outcome
  /\ accepts' = accepts \cup {x.sent[i].headers.accept : i \in 1..Len(x.sent)}
  /\ UNCHANGED <<api_version, base_url, session>>

(* ------------------------------- actions ------------------------------- *)
Init ==
  /\ api_version \in Versions
  /\ base_url = "https://api.geckoterminal.com/api/v2"
  /\ session = "requests.Session"
  /\ call = [method |-> "__init__", args |-> <<"self">>, kwargs |-> <<>>]
  /\ warned = <<>>
  /\ sent = <<>>
  /\ wire = <<>>
  /\ response = NoReply
  /\ outcome = NoOutcome
  /\ accepts = {}

Call_networks ==
  /\ Idle
  /\ \E page \in Pages, given \in SUBSET {"page"}, npos \in 0..1, reply \in Replies :
    LET sig == <<"page">>
        dflt == [page |-> DefaultPage]
        vals == [page |-> page]
        args == PosArgs(sig, vals, npos)
        kwargs == KwArgs(sig, vals, given, npos)
        b == Bind(sig, dflt, args, kwargs)
    IN /\ ValidCall(sig, dflt, vals, given, npos)
       /\ Invoke("networks", args, kwargs, unguarded(networks(b.page, reply)))

Call_dexes ==
  /\ Idle
  /\ \E network \in Networks, page \in Pages,
     given \in SUBSET {"network", "page"}, npos \in 0..2, reply \in Replies :
    LET sig == <<"network", "page">>
        dflt == [page |-> DefaultPage]
        vals == [network |-> network, page |-> page]
        args == PosArgs(sig, vals, npos)
        kwargs == KwArgs(sig, vals, given, npos)
        b == Bind(sig, dflt, args, kwargs)
    IN /\ ValidCall(sig, dflt, vals, given, npos)
       /\ Invoke("dexes", args, kwargs, unguarded(dexes(b.network, b.page, reply)))

Call_trending_pools ==
  /\ Idle
  /\ \E include \in IncludeArgs, page \in Pages,
     given \in SUBSET {"include", "page"}, npos \in 0..2, reply \in Replies :
    LET sig == <<"include", "page">>
        dflt == [include |-> None, page |-> DefaultPage]
        vals == [include |-> include, page |-> page]
        args == PosArgs(sig, vals, npos)
        kwargs == KwArgs(sig, vals, given, npos)
        b == Bind(sig, dflt, args, kwargs)
    IN /\ ValidCall(sig, dflt, vals, given, npos)
       /\ Invoke("trending_pools", args, kwargs,
                 validate_page(args, kwargs, trending_pools(b.include, b.page, reply)))

Call_network_trending_pools ==
  /\ Idle
  /\ \E network \in Networks, include \in IncludeArgs, page \in Pages,
     given \in SUBSET {"network", "include", "page"}, npos \in 0..3, reply \in Replies :
    LET sig == <<"network", "include", "page">>
        dflt == [include |-> None, page |-> DefaultPage]
        vals == [network |-> network, include |-> include, page |-> page]
        args == PosArgs(sig, vals, npos)
        kwargs == KwArgs(sig, vals, given, npos)
        b == Bind(sig, dflt, args, kwargs)
    IN /\ ValidCall(sig, dflt, vals, given, npos)
       /\ Invoke("network_trending_pools", args, kwargs,
                 validate_page(args, kwargs,
                               network_trending_pools(b.network, b.include, b.page, reply)))

Call_network_pool_address ==
  /\ Idle
  /\ \E network \in Networks, address \in Names(AddrPool), include \in IncludeArgs,
     given \in SUBSET {"network", "address", "include"}, npos \in 0..3, reply \in Replies :
    LET sig == <<"network", "address", "include">>
        dflt == [include |-> None]
        vals == [network |-> network, address |-> address, include |-> include]
        args == PosArgs(sig, vals, npos)
        kwargs == KwArgs(sig, vals, given, npos)
        b == Bind(sig, dflt, args, kwargs)
    IN /\ ValidCall(sig, dflt, vals, given, npos)
       /\ Invoke("network_pool_address", args, kwargs,
                 unguarded(network_pool_address(b.network, b.address, b.include, reply)))

Call_network_pools_multi_address ==
  /\ Idle
  /\ \E network \in Networks, addresses \in AddressLists, include \in IncludeArgs,
     given \in SUBSET {"network", "addresses", "include"}, npos \in 0..3, reply \in Replies :
    LET sig == <<"network", "addresses", "include">>
        dflt == [include |-> None]
        vals == [network |-> network, addresses |-> addresses, include |-> include]
        args == PosArgs(sig, vals, npos)
        kwargs == KwArgs(sig, vals, given, npos)
        b == Bind(sig, dflt, args, kwargs)
    IN /\ ValidCall(sig, dflt, vals, given, npos)
       /\ Invoke("network_pools_multi_address", args, kwargs,
                 validate_addresses(args, kwargs,
                     network_pools_multi_address(b.network, b.addresses, b.include, reply)))

Call_network_pools ==
  /\ Idle
  /\ \E network \in Networks, include \in IncludeArgs, page \in Pages,
     given \in SUBSET {"network", "include", "page"}, npos \in 0..3, reply \in Replies :
    LET sig == <<"network", "include", "page">>
        dflt == [include |-> None, page |-> DefaultPage]
        vals == [network |-> network, include |-> include, page |-> page]
        args == PosArgs(sig, vals, npos)
        kwargs == KwArgs(sig, vals, given, npos)
        b == Bind(sig, dflt, args, kwargs)
    IN /\ ValidCall(sig, dflt, vals, given, npos)
       /\ Invoke("network_pools", args, kwargs,
                 unguarded(network_pools(b.network, b.include, b.page, reply)))

Call_network_dex_pools ==
  /\ Idle
  /\ \E network \in Networks, dex \in Dexes, include \in IncludeArgs, page \in Pages,
     given \in SUBSET {"network", "dex", "include", "page"}, npos \in 0..4, reply \in Replies :
    LET sig == <<"network", "dex", "include", "page">>
        dflt == [include |-> None, page |-> DefaultPage]
        vals == [network |-> network, dex |-> dex, include |-> include, page |-> page]
        args == PosArgs(sig, vals, npos)
        kwargs == KwArgs(sig, vals, given, npos)
        b == Bind(sig, dflt, args, kwargs)
    IN /\ ValidCall(sig, dflt, vals, given, npos)
       /\ Invoke("network_dex_pools", args, kwargs,
                 unguarded(network_dex_pools(b.network, b.dex, b.include, b.page, reply)))

Call_network_new_pools ==
  /\ Idle
  /\ \E network \in Networks, include \in IncludeArgs, page \in Pages,
     given \in SUBSET {"network", "include", "page"}, npos \in 0..3, reply \in Replies :
    LET sig == <<"network", "include", "page">>
        dflt == [include |-> None, page |-> DefaultPage]
        vals == [network |-> network, include |-> include, page |-> page]
        args == PosArgs(sig, vals, npos)
        kwargs == KwArgs(sig, vals, given, npos)
        b == Bind(sig, dflt, args, kwargs)
    IN /\ ValidCall(sig, dflt, vals, given, npos)
       /\ Invoke("network_new_pools", args, kwargs,
                 validate_page(args, kwargs,
                               network_new_pools(b.network, b.include, b.page, reply)))

Call_new_pools ==
  /\ Idle
  /\ \E include \in IncludeArgs, page \in Pages,
     given \in SUBSET {"include", "page"}, npos \in 0..2, reply \in Replies :
    LET sig == <<"include", "page">>
        dflt == [include |-> None, page |-> DefaultPage]
        vals == [include |-> include, page |-> page]
        args == PosArgs(sig, vals, npos)
        kwargs == KwArgs(sig, vals, given, npos)
        b == Bind(sig, dflt, args, kwargs)
    IN /\ ValidCall(sig, dflt, vals, given, npos)
       /\ Invoke("new_pools", args, kwargs,
                 validate_page(args, kwargs, new_pools(b.include, b.page, reply)))

Call_search_network_pool ==
  /\ Idle
  /\ \E query \in Queries, network \in NetworkArgs, include \in IncludeArgs, page \in Pages,
     given \in SUBSET {"query", "network", "include", "page"}, npos \in 0..4, reply \in Replies :
    LET sig == <<"query", "network", "include", "page">>
        dflt == [network |-> None, include |-> None, page |-> DefaultPage]
        vals == [query |-> query, network |-> network, include |-> include, page |-> page]
        args == PosArgs(sig, vals, npos)
        kwargs == KwArgs(sig, vals, given, npos)
        b == Bind(sig, dflt, args, kwargs)
    IN /\ ValidCall(sig, dflt, vals, given, npos)
       /\ Invoke("search_network_pool", args, kwargs,
                 validate_page(args, kwargs,
                     search_network_pool(b.query, b.network, b.include, b.page, reply)))

Call_network_addresses_token_price ==
  /\ Idle
  /\ \E network \in Networks, addresses \in AddressLists,
     given \in SUBSET {"network", "addresses"}, npos \in 0..2, reply \in Replies :
    LET sig == <<"network", "addresses">>
        dflt == NoDefaults
        vals == [network |-> network, addresses |-> addresses]
        args == PosArgs(sig, vals, npos)
        kwargs == KwArgs(sig, vals, given, npos)
        b == Bind(sig, dflt, args, kwargs)
    IN /\ ValidCall(sig, dflt, vals, given, npos)
       /\ Invoke("network_addresses_token_price", args, kwargs,
                 validate_addresses(args, kwargs,
                     network_addresses_token_price(b.network, b.addresses, reply)))

\* Control is back with the caller, which has taken the call's result (the
\* returned value or the raised exception) and its warnings; the client keeps
\* only its configuration and its session.
ReturnToCaller ==
  /\ ~Idle
  /\ call' = [method |-> "__init__", args |-> <<"self">>, kwargs |-> <<>>]
  /\ warned' = <<>>
  /\ sent' = <<>>
  /\ wire' = <<>>
  /\ response' = NoReply
  /\ outcome' = NoOutcome
  /\ UNCHANGED <<api_version, base_url, session, accepts>>

Next ==
  \/ Call_networks
  \/ Call_dexes
  \/ Call_trending_pools
  \/ Call_network_trending_pools
  \/ Call_network_pool_address
  \/ Call_network_pools_multi_address
  \/ Call_network_pools
  \/ Call_network_dex_pools
  \/ Call_network_new_pools
  \/ Call_new_pools
  \/ Call_search_network_pool
  \/ Call_network_addresses_token_price
  \/ ReturnToCaller

Spec == Init /\ [][Next]_vars

(* ===================== vocabulary of the properties ==================== *)
PageGuarded == {"trending_pools", "network_trending_pools", "network_new_pools",
                "new_pools", "search_network_pool"}
AddrGuarded == {"network_pools_multi_address", "network_addresses_token_price"}

\* 0-based position of a parameter in the positional tuple (self is 0)
PagePos(m) == CASE m \in {"trending_pools", "new_pools"} -> 2
                [] m \in {"network_trending_pools", "network_new_pools"} -> 3
                [] m = "search_network_pool" -> 4
IncludePos(m) == CASE m \in {"trending_pools", "new_pools"} -> 1
                   [] m \in {"network_trending_pools", "network_new_pools", "network_pools"} -> 2
                   [] m \in {"network_pool_address", "network_pools_multi_address",
                             "network_dex_pools"} -> 3
                   [] m = "search_network_pool" -> 3

\* The caller's value for a parameter, however it was passed
Passed(name, pos) == name \in DOMAIN call.kwargs \/ Len(call.args) > pos
Arg(name, pos) == IF name \in DOMAIN call.kwargs THEN call.kwargs[name] ELSE call.args[pos + 1]

CallerPage == IF Passed("page", PagePos(call.method))
              THEN Arg("page", PagePos(call.method)) ELSE 1
CallerAddresses == Arg("addresses", 2)
CallerInclude == IF Passed("include", IncludePos(call.method))
                 THEN Arg("include", IncludePos(call.method)) ELSE None

\* s.split(sep): the pieces of s between the occurrences of the character sep
Split(s, sep) ==
  LET n == Len(s)
      P == {i \in 1..n : SubSeq(s, i, i) = sep}
      cnt == Cardinality(P)
      Pos(k) == IF k = 0 THEN 0
                ELSE IF k = cnt + 1 THEN n + 1
                ELSE CHOOSE p \in P : Cardinality({q \in P : q < p}) = k - 1
  IN [k \in 1..(cnt + 1) |-> SubSeq(s, Pos(k - 1) + 1, Pos(k) - 1)]
StartsWith(s, prefix) == Len(s) >= Len(prefix) /\ SubSeq(s, 1, Len(prefix)) = prefix
After(s, prefix) == SubSeq(s, Len(prefix) + 1, Len(s))
Joined(s, sep, items) == IF items = <<>> THEN s = "" ELSE Split(s, sep) = items

(* ============================== properties ============================= *)

\* C1: whenever the transport answered with a status other than 200 (other
\* 2xx, 3xx, 4xx, 5xx), the call ended by raising GeckoTerminalAPIError built
\* from status=response.status_code and err=response.text, and returned no
\* decoded value.
C1_NonOkRaisesApiError ==
  (response.kind = "response" /\ response.status_code # 200) =>
     /\ outcome.kind = "raise"
     /\ outcome.exc = "GeckoTerminalAPIError"
     /\ outcome.status = response.status_code
     /\ outcome.err = response.text

C1_Witness ==
  /\ response.kind = "response"
  /\ response.status_code = 201
  /\ response.text = "{\"data\":[]}"
  /\ outcome.kind = "raise"
  /\ outcome.exc = "GeckoTerminalAPIError"

\* C2 (as claimed): every call of a guarded method reaches the transport with
\* the caller's arguments; the guard never raises and never blocks the
\* request, also when more than 30 addresses are passed.
C2_GuardsAdvisoryOnly ==
  (~Idle /\ call.method \in PageGuarded \cup AddrGuarded) =>
     /\ ~(outcome.kind = "raise" /\ outcome.exc = "IndexError")
     /\ Len(sent) = 1
     /\ call.method \in AddrGuarded =>
          LET prefix == base_url
                        \o (IF call.method = "network_pools_multi_address"
                            THEN "/networks/" \o Arg("network", 1) \o "/pools/multi/"
                            ELSE "/simple/networks/" \o Arg("network", 1) \o "/token_price/")
          IN /\ StartsWith(sent[1].url, prefix)
             /\ Joined(After(sent[1].url, prefix), "%", CallerAddresses)

\* C3 (as claimed): a page-guarded call with page > 10, passed by keyword or
\* positionally, emits one GeckoTerminalParameterWarning and sends the
\* caller's page unclamped; with page <= 10 it emits no warning.
C3_PageWarning ==
  (~Idle /\ call.method \in PageGuarded) =>
     /\ CallerPage > 10 =>
          /\ Len(warned) = 1
          /\ warned[1].category = "GeckoTerminalParameterWarning"
          /\ Len(sent) = 1
          /\ sent[1].params.val.page = CallerPage
     /\ CallerPage <= 10 => warned = <<>>

\* The accept header every request of this client must carry if a version
\* is "configured" whenever api_version is a string (C4 as claimed) ...
AcceptIfString ==
  IF IsNone(api_version) THEN "application/json"
  ELSE "application/json;version=" \o api_version.val
\* ... and if only a non-empty string counts as a configured version.
AcceptIfNonEmpty ==
  IF IsNone(api_version) \/ api_version.val = "" THEN "application/json"
  ELSE "application/json;version=" \o api_version.val

\* C4 (as claimed): every outgoing request carries application/json;version=<v>
\* when a version string was given at construction and application/json when
\* none was.
C4_AcceptFromVersionString ==
  \A i \in 1..Len(sent) : sent[i].headers.accept = AcceptIfString

\* C4 (amended): every outgoing request carries application/json;version=<v>
\* when a non-empty version string was given at construction and
\* application/json when None or the empty string was; all requests of one
\* client carry the same header, and no endpoint call changes api_version,
\* base_url or the session.
C4_AcceptFromVersion ==
  /\ [](/\ \A i \in 1..Len(sent) : /\ DOMAIN sent[i].headers = {"accept"}
                                    /\ sent[i].headers.accept = AcceptIfNonEmpty
        /\ accepts \subseteq {AcceptIfNonEmpty})
  /\ [][/\ api_version' = api_version
        /\ base_url' = base_url
        /\ session' = session]_vars

C4_Witness ==
  /\ api_version = Some("")
  /\ Len(sent) = 1
  /\ sent[1].headers.accept = "application/json"
  /\ accepts = {"application/json"}

\* C5 (as claimed): every endpoint call hands exactly one GET to the
\* transport before it returns or raises.
C5_ExactlyOneGet ==
  ~Idle => /\ Len(sent) = 1
           /\ sent[1].method = "GET"

\* C6: when the transport answers 200, what the method returns is exactly the
\* decoded body, with every key of the body and no other; a body that does
\* not decode yields no return value at all.
C6_OkReturnsDecodedBody ==
  (response.kind = "response" /\ response.status_code = 200) =>
     /\ response.text = "{\"data\":[]}" => outcome = Return([data |-> <<>>])
     /\ response.text = "{\"data\":[],\"included\":[]}"
           => outcome = Return([data |-> <<>>, included |-> <<>>])
     /\ outcome.kind = "return" => /\ WellFormed(response.text)
                                   /\ outcome.value = json(response.text)
     /\ ~WellFormed(response.text) => outcome = Raise("JSONDecodeError")

C6_Witness ==
  /\ call.method = "network_pools_multi_address"
  /\ warned # <<>>
  /\ response.kind = "response"
  /\ response.status_code = 200
  /\ outcome.kind = "return"
  /\ DOMAIN outcome.value = {"data", "included"}

\* C7: the last path segment of a request of network_pools_multi_address or
\* network_addresses_token_price is the caller's addresses joined with "%",
\* in the caller's order and with repeated addresses kept; an include list
\* given to network_pools_multi_address goes out joined with ",".
C7_AddressesJoined ==
  (call.method \in AddrGuarded /\ Len(sent) >= 1) =>
     LET network == Arg("network", 1)
         prefix == base_url
                   \o (IF call.method = "network_pools_multi_address"
                       THEN "/networks/" \o network \o "/pools/multi/"
                       ELSE "/simple/networks/" \o network \o "/token_price/")
         segment == After(sent[1].url, prefix)
     IN /\ StartsWith(sent[1].url, prefix)
        /\ Split(segment, "/") = <<segment>>
        /\ Joined(segment, "%", CallerAddresses)
        /\ (call.method = "network_pools_multi_address" /\ network = "eth"
              /\ CallerAddresses = <<"0xAA", "0xBB">>)
             => sent[1].url = "https://api.geckoterminal.com/api/v2/networks/eth/pools/multi/0xAA%0xBB"
        /\ (call.method = "network_pools_multi_address" /\ ~IsNone(CallerInclude))
             => Joined(sent[1].params.val.include, ",", CallerInclude.val)

C7_Witness ==
  /\ call.method = "network_pools_multi_address"
  /\ Len(sent) = 1
  /\ CallerAddresses = <<"0xBB", "0xBB">>
  /\ sent[1].url = "https://api.geckoterminal.com/api/v2/networks/eth/pools/multi/0xBB%0xBB"

\* C8: with include omitted the global endpoints send
\* include=base_token,quote_token,dex,network and the per-network and search
\* endpoints send include=base_token,quote_token,dex; an omitted page goes out
\* as 1; network_pools("eth") requests /networks/eth/pools with
\* include=base_token,quote_token,dex and page=1; an include list given by the
\* caller goes out as given, never replaced or extended by the default.
IncludeMethods == {"trending_pools", "new_pools", "network_trending_pools",
                   "network_pool_address", "network_pools_multi_address", "network_pools",
                   "network_dex_pools", "network_new_pools", "search_network_pool"}
PagedIncludeMethods == IncludeMethods \ {"network_pool_address", "network_pools_multi_address"}

C8_DefaultInclude ==
  (call.method \in IncludeMethods /\ Len(sent) >= 1) =>
     LET m == call.method
         params == sent[1].params.val
     IN /\ IsNone(CallerInclude) =>
             params.include = IF m \in {"trending_pools", "new_pools"}
                              THEN "base_token,quote_token,dex,network"
                              ELSE "base_token,quote_token,dex"
        /\ ~IsNone(CallerInclude) => Joined(params.include, ",", CallerInclude.val)
        /\ (m \in PagedIncludeMethods /\ ~Passed("page", IF m = "network_dex_pools" THEN 4
                                                          ELSE IF m = "network_pools" THEN 3
                                                          ELSE PagePos(m)))
             => params.page = 1
        /\ (m = "network_pools" /\ call.args = <<"self", "eth">> /\ DOMAIN call.kwargs = {})
             => /\ sent[1].url = "https://api.geckoterminal.com/api/v2/networks/eth/pools"
                /\ params = [include |-> "base_token,quote_token,dex", page |-> 1]

C8_Witness ==
  /\ call.method = "network_pools"
  /\ call.args = <<"self", "eth">>
  /\ DOMAIN call.kwargs = {}
  /\ Len(sent) = 1
  /\ sent[1].params.val.include = "base_token,quote_token,dex"

\* C9 (as claimed): the parameters the client hands to the transport contain
\* no name mapped to None.
C9_NoNoneHandedOver ==
  \A i \in 1..Len(sent) :
     ~IsNone(sent[i].params) =>
        \A k \in DOMAIN sent[i].params.val \cap OptionalParams : ~IsNone(sent[i].params.val[k])

\* C9 (amended): a parameter whose value is None is never part of the request
\* that goes out: search_network_pool hands the transport a mapping that
\* always has the name network, mapped to None when the caller gave no
\* network, and the transport leaves that name out of the query; a network the
\* caller gave goes out as given, and every other parameter goes out unchanged.
C9_NoneNotOnWire ==
  (call.method = "search_network_pool" /\ Len(sent) >= 1) =>
     LET network == IF Passed("network", 2) THEN Arg("network", 2) ELSE None
         handed == sent[1].params.val
         query == wire[1].query
     IN /\ Len(wire) = Len(sent)
        /\ DOMAIN handed = {"query", "network", "include", "page"}
        /\ handed.network = network
        /\ IsNone(network) => DOMAIN query = {"query", "include", "page"}
        /\ ~IsNone(network) => /\ DOMAIN query = {"query", "network", "include", "page"}
                               /\ query.network = network.val
        /\ \A k \in {"query", "include", "page"} : query[k] = handed[k]

C9_Witness ==
  /\ call.method = "search_network_pool"
  /\ ~Passed("network", 2)
  /\ Len(sent) = 1
  /\ IsNone(sent[1].params.val.network)
  /\ DOMAIN wire[1].query = {"query", "include", "page"}

\* C10 (as claimed): the count in the address guard's warning is the number
\* of addresses passed to the call, however network was passed.
C10_WarningCountsAddresses ==
  (call.method \in AddrGuarded /\ warned # <<>>) =>
     warned[1].message = "Maximum 30 addresses allowed, "
                         \o ToString(Len(CallerAddresses)) \o " provided"

====
